---- MODULE Spec2Model ----
(***************************************************************************)
(* A model of Lib/rlcompleter.py: the Filter objects, the two priority     *)
(* ordered filter chains of Filterer, and the Completer engine with its    *)
(* state-indexed complete(text, state) protocol.                           *)
(*                                                                         *)
(* Strings are sequences of one-character strings, so that prefixes,       *)
(* slicing and concatenation are computed as Python computes them.         *)
(***************************************************************************)
EXTENDS Integers, Sequences, FiniteSets, TLC

VARIABLES
    engine,             \* "none" | "filterer" | "completer": the object constructed
    use_main_ns,        \* Completer.use_main_ns (0 / 1)
    namespace,          \* Completer.namespace, a scope value (NoAttr while unset)
    namespace_filters,  \* Filterer.namespace_filters, a list of Filter objects
    attribute_filters,  \* Filterer.attribute_filters
    matches,            \* Completer.matches, the cached candidate list
    has_matches,        \* whether the attribute self.matches exists yet
    readline_available, \* module global _readline_available
    ns_reg,             \* history: namespace filters in order of successful add
    attr_reg,           \* history: attribute filters in order of successful add
    run,                \* history: the complete(text, 0), complete(text, 1), ...
                        \* sequence under way
    last                \* history: the last call, its arguments and its outcome

vars == <<engine, use_main_ns, namespace, namespace_filters, attribute_filters,
          matches, has_matches, readline_available, ns_reg, attr_reg, run, last>>

-----------------------------------------------------------------------------
(* Bounds *)

\* complete() is called with state in 0 .. MaxState
MaxState == 2

-----------------------------------------------------------------------------
(* Strings *)

\* a mutant of word[:n] == text: only the lengths are compared
IsPrefixByLength(p, w) == Len(p) <= Len(w)

\* word[:len(p)] == p
IsPrefix(p, w) == Len(p) <= Len(w) /\ SubSeq(w, 1, Len(p)) = p

\* a mutant of "not text.strip()": "not text"
BlankIsEmpty(text) == text = <<>>

\* str.strip() leaves nothing: every character is whitespace
Whitespace == {" ", "\t"}
Blank(text) == \A i \in 1..Len(text) : text[i] \in Whitespace

TAB == <<"\t">>

-----------------------------------------------------------------------------
(* Filter objects *)

\* Filter.default_priority
default_priority == 500

\* The Filter objects of the model.  f0 and f4 are plain filters of default
\* priority, f1 is a subclass whose predicate raises on some names, f2 and
\* f3 are SkipIf-style subclasses, f5 is a subclass that defines __eq__ so
\* that it compares equal to f0, f6 is a subclass whose predicate rejects
\* everything.
Filters == {"f0", "f1", "f2", "f3", "f4", "f5", "f6"}

\* Filter.__init__: self.priority
Priority(f) ==
    CASE f = "f0" -> default_priority
      [] f = "f1" -> 20
      [] f = "f2" -> 10
      [] f = "f3" -> 10
      [] f = "f4" -> default_priority
      [] f = "f5" -> 5
      [] f = "f6" -> default_priority

\* f == g as the objects define it: identity unless __eq__ is overridden
EqKey(f) == IF f = "f5" THEN "f0" ELSE f
FilterEq(f, g) == EqKey(f) = EqKey(g)

-----------------------------------------------------------------------------
(* Names used by the model *)

n_abs == <<"a", "b", "s">>
n_all == <<"a", "l", "l">>
n_sp  == <<"s", "p">>
n_us  == <<"_">>

\* f2 is SkipIf(prefix): rejects every key that starts with the prefix;
\* f3 rejects every name that starts with an underscore
SkipPrefix == <<"a", "b">>
\* f1 raises when it is asked about one of these names
RaiseNames == {n_sp, <<"p", "k">>}

NoOptions == {}

\* f.filter(target, suggestion, value, text, **options): "accept" for a true
\* result, "reject" for a false one, "raise" when the predicate raises.
Predicate(f, target, suggestion, value, text, options) ==
    CASE f = "f1" -> IF suggestion \in RaiseNames THEN "raise" ELSE "accept"
      [] f = "f2" -> IF IsPrefix(SkipPrefix, suggestion) THEN "reject" ELSE "accept"
      [] f = "f3" -> IF IsPrefix(n_us, suggestion) THEN "reject" ELSE "accept"
      [] f = "f6" -> "reject"
      [] OTHER    -> "accept"

-----------------------------------------------------------------------------
(* Filterer *)

\* a mutant of the loop of _add_filter: stops at the first filter whose
\* priority is larger or equal
RECURSIVE AddScanBeforeTies(_, _, _)
AddScanBeforeTies(filters, filter, i) ==
    IF i > Len(filters) THEN 0
    ELSE IF FilterEq(filters[i], filter) THEN -1
    ELSE IF Priority(filters[i]) >= Priority(filter) THEN i
    ELSE AddScanBeforeTies(filters, filter, i + 1)

\* Filterer._add_filter, the loop: 0 when the loop ends with pos == -1
\* (append), -1 when an equal filter is met (return False), otherwise the
\* 1-based position of the first filter with a larger priority.
RECURSIVE AddScan(_, _, _)
AddScan(filters, filter, i) ==
    IF i > Len(filters) THEN 0
    ELSE IF FilterEq(filters[i], filter) THEN -1
    ELSE IF Priority(filters[i]) > Priority(filter) THEN i
    ELSE AddScan(filters, filter, i + 1)

\* list.insert(pos, x) with a 1-based position
InsertAt(s, pos, x) == SubSeq(s, 1, pos - 1) \o <<x>> \o SubSeq(s, pos, Len(s))

\* Filterer._add_filter: [ret, filters]
_add_filter(filters, filter) ==
    LET pos == AddScan(filters, filter, 1) IN
    IF pos = -1 THEN [ret |-> FALSE, filters |-> filters]
    ELSE IF pos = 0 THEN [ret |-> TRUE, filters |-> Append(filters, filter)]
    ELSE [ret |-> TRUE, filters |-> InsertAt(filters, pos, filter)]

\* list.index by ==: the 1-based position of the first equal entry, 0 if none
RECURSIVE IndexOf(_, _, _)
IndexOf(filters, filter, i) ==
    IF i > Len(filters) THEN 0
    ELSE IF FilterEq(filters[i], filter) THEN i
    ELSE IndexOf(filters, filter, i + 1)

\* a mutant of list.remove: deletes the last equal entry
RECURSIVE LastIndexOf(_, _, _)
LastIndexOf(filters, filter, i) ==
    IF i > Len(filters) THEN 0
    ELSE LET r == LastIndexOf(filters, filter, i + 1) IN
         IF r # 0 THEN r
         ELSE IF FilterEq(filters[i], filter) THEN i ELSE 0

DeleteAt(s, pos) == SubSeq(s, 1, pos - 1) \o SubSeq(s, pos + 1, Len(s))

RemoveLastPos(filters, filter) == LastIndexOf(filters, filter, 1)

\* the position list.remove(filter) deletes
RemovePos(filters, filter) == IndexOf(filters, filter, 1)

\* Filterer._remove_filter: [ret, filters, pos]
_remove_filter(filters, filter) ==
    IF filters # <<>> /\ (\E i \in 1..Len(filters) : FilterEq(filters[i], filter))
    THEN LET pos == RemovePos(filters, filter) IN
         [ret |-> TRUE, filters |-> DeleteAt(filters, pos), pos |-> pos]
    ELSE [ret |-> FALSE, filters |-> filters, pos |-> 0]

FilterCall(f, target, suggestion, value, text, options) ==
    [f |-> f, target |-> target, name |-> suggestion, value |-> value,
     text |-> text, options |-> options,
     verdict |-> Predicate(f, target, suggestion, value, text, options)]

\* a mutant of Filterer._filter: every predicate runs, the last one decides
RECURSIVE FilterNoShortCircuit(_, _, _, _, _, _, _)
FilterNoShortCircuit(filters, i, target, suggestion, value, text, options) ==
    IF i > Len(filters) THEN [ret |-> "True", calls |-> <<>>]
    ELSE LET c == FilterCall(filters[i], target, suggestion, value, text, options)
             r == FilterNoShortCircuit(filters, i + 1, target, suggestion, value,
                                       text, options)
         IN  IF c.verdict = "raise" THEN [ret |-> "raise", calls |-> <<c>>]
             ELSE [ret |-> IF c.verdict = "reject" /\ r.ret = "True"
                           THEN "False" ELSE r.ret,
                   calls |-> <<c>> \o r.calls]

\* Filterer._filter from position i on: [ret, calls] where ret is "True",
\* "False" or "raise" and calls lists the predicate calls made, in order.
RECURSIVE FilterFrom(_, _, _, _, _, _, _)
FilterFrom(filters, i, target, suggestion, value, text, options) ==
    IF i > Len(filters) THEN [ret |-> "True", calls |-> <<>>]
    ELSE LET c == FilterCall(filters[i], target, suggestion, value, text, options) IN
         IF c.verdict = "raise" THEN [ret |-> "raise", calls |-> <<c>>]
         ELSE IF c.verdict = "reject" THEN [ret |-> "False", calls |-> <<c>>]
         ELSE LET r == FilterFrom(filters, i + 1, target, suggestion, value,
                                  text, options)
              IN  [ret |-> r.ret, calls |-> <<c>> \o r.calls]

_filter(filters, target, suggestion, value, text, options) ==
    FilterFrom(filters, 1, target, suggestion, value, text, options)

-----------------------------------------------------------------------------
(* Values, scopes and objects *)

n_and      == <<"a", "n", "d">>
n_as       == <<"a", "s">>
n_assert   == <<"a", "s", "s", "e", "r", "t">>
n_try      == <<"t", "r", "y">>
n_o        == <<"o">>
n_builtins == <<"_", "_", "b", "u", "i", "l", "t", "i", "n", "s", "_", "_">>
n_class    == <<"_", "_", "c", "l", "a", "s", "s", "_", "_">>
n_pk       == <<"p", "k">>
n_pr       == <<"p", "r">>
n_sl       == <<"s", "l">>
n_s        == <<"_", "s">>
n_d        == <<"_", "_", "d">>
n_p        == <<"p">>
n_u        == <<"u">>
n_r        == <<"r">>
n_b        == <<"b">>
n_l        == <<"l">>

\* keyword.kwlist + keyword.softkwlist, restricted to the words the model
\* uses, in the order of that list
KwList == <<n_and, n_as, n_assert, n_try, n_us>>
KwColon == {n_try}
KwBare  == {n_us}

\* The values of the model:
\*   v_none     None
\*   v_one      the int 1
\*   v_lambda0  lambda: None, a callable without parameters
\*   v_fn       a callable with parameters
\*   v_nosig    a callable for which inspect.signature raises ValueError
\*   v_obj      an instance of the class K: an attribute pk, a property pr
\*              (its getter returns a callable), a
\*              slot sl that was never set, a method _s, an attribute __d
\*   v_p        an instance of the class P: attributes abs, _s and __d
\*   v_u        an instance of the class U: attributes _s and __d, none
\*              without a leading underscore
\*   v_r        an instance of the class R, whose attribute pk raises
\*              ValueError when it is read
\*   v_b        an instance of the class B, which has a class attribute
\*              named __builtins__
\*   v_mod      a module: dir() of it lists __builtins__, dir() of its
\*              type does not
\*   v_cls      a class
\*   v_mod      the builtins module
callable(v) == v \in {"v_lambda0", "v_fn", "v_nosig", "v_cls"}
SignatureOf(v) ==
    CASE v = "v_lambda0" -> "noparams"
      [] v = "v_nosig"   -> "ValueError"
      [] OTHER           -> "params"

\* Completer._callable_postfix
_callable_postfix(val, word) ==
    IF callable(val)
    THEN IF SignatureOf(val) = "noparams" THEN word \o <<"(", ")">>
         ELSE word \o <<"(">>
    ELSE word

\* A scope value: the identity of the object, its Python type and, for a
\* mapping, its items in iteration order.  NoAttr stands for the attribute
\* not being set.
Scope(id, type, items) == [id |-> id, type |-> type, items |-> items]
Item(k, v) == [k |-> k, v |-> v]
NoAttr == Scope("unset", "unset", <<>>)

DictA == Scope("DictA", "dict", <<Item(n_try, "v_lambda0"), Item(n_abs, "v_none"),
                         Item(n_sp, "v_lambda0"), Item(n_o, "v_obj")>>)
DictM == Scope("DictM", "dict", <<Item(n_o, "v_obj"), Item(n_p, "v_p"),
                                  Item(n_u, "v_u"), Item(n_r, "v_r"),
                                  Item(n_b, "v_b"), Item(n_l, "v_mod")>>)
DictSub    == Scope("DictSub", "dictsubclass", <<Item(n_sp, "v_nosig")>>)
EmptyList  == Scope("EmptyList", "list", <<>>)
List1      == Scope("List1", "list", <<"v_one">>)
EmptyProxy == Scope("EmptyProxy", "mappingproxy", <<>>)
Proxy1     == Scope("Proxy1", "mappingproxy", <<Item(n_sp, "v_one")>>)
NoneArg    == Scope("None", "NoneType", <<>>)

\* __main__.__dict__ and builtins.__dict__
MainNs   == Scope("__main__.__dict__", "dict", <<Item(n_builtins, "v_mod"), Item(n_all, "v_one"),
                            Item(n_o, "v_obj")>>)
Builtins == Scope("builtins.__dict__", "dict", <<Item(n_abs, "v_fn"), Item(n_all, "v_fn")>>)

\* bool(namespace): None and empty containers are false
Truthy(ns) == ns.type # "NoneType" /\ ns.items # <<>>
\* isinstance(namespace, dict)
IsDict(ns) == ns.type \in {"dict", "dictsubclass"}
\* the value has an items() method
HasItems(ns) == ns.type \in {"dict", "dictsubclass", "mappingproxy"}

Keys(ns) == {ns.items[i].k : i \in 1..Len(ns.items)}
Lookup(ns, k) == ns.items[CHOOSE i \in 1..Len(ns.items) : ns.items[i].k = k].v

-----------------------------------------------------------------------------
(* Matching: the outcome of a matching call *)

\* exc: "none" or the exception that propagates; list: the candidates;
\* calls: the filter predicate calls made, in order; ns: the active scope
\* after the call; reads: the member names read with getattr(thisobject, .)
Outcome(exc, list, calls, ns, reads) ==
    [exc |-> exc, list |-> list, calls |-> calls, ns |-> ns, reads |-> reads]

-----------------------------------------------------------------------------
(* Completer.global_matches *)

KwDecorate(word) ==
    IF word \in KwColon THEN word \o <<":">>
    ELSE IF word \in KwBare THEN word
    ELSE word \o <<" ">>

\* a mutant of the keyword loop: no keyword is appended
KeywordMatchesNone(text, i) == <<>>

\* the keyword loop: the decorated keywords that have text as prefix
RECURSIVE KeywordMatches(_, _)
KeywordMatches(text, i) ==
    IF i > Len(KwList) THEN <<>>
    ELSE (IF IsPrefix(text, KwList[i]) THEN <<KwDecorate(KwList[i])>> ELSE <<>>)
         \o KeywordMatches(text, i + 1)

\* a mutant of the keyword loop: the keywords are not added to seen
KeywordSeenNone(text) == {n_builtins}

\* seen after the keyword loop
KeywordSeen(text) ==
    {n_builtins} \cup {KwList[i] : i \in {j \in 1..Len(KwList) : IsPrefix(text, KwList[j])}}

\* a mutant of the loop over nspace.items(): a word is added to seen only
\* when the filters accept it
RECURSIVE ScanItemsSeenAfterFilter(_, _, _, _, _, _)
ScanItemsSeenAfterFilter(target, items, i, text, filters, acc) ==
    IF acc.exc # "none" \/ i > Len(items) THEN acc
    ELSE LET word == items[i].k
             value == items[i].v
         IN
         IF IsPrefix(text, word) /\ word \notin acc.seen
         THEN LET r == _filter(filters, target, word, value, text, NoOptions)
                  acc1 == [acc EXCEPT !.calls = @ \o r.calls]
              IN  IF r.ret = "raise"
                  THEN [acc1 EXCEPT !.exc = "FilterError"]
                  ELSE IF r.ret = "True"
                  THEN ScanItemsSeenAfterFilter(target, items, i + 1, text, filters,
                           [acc1 EXCEPT !.seen = @ \cup {word},
                                        !.matches =
                                            Append(@, _callable_postfix(value, word))])
                  ELSE ScanItemsSeenAfterFilter(target, items, i + 1, text, filters, acc1)
         ELSE ScanItemsSeenAfterFilter(target, items, i + 1, text, filters, acc)

\* the loop over nspace.items() from item i on; acc is [seen, matches, calls, exc]
RECURSIVE ScanItems(_, _, _, _, _, _)
ScanItems(target, items, i, text, filters, acc) ==
    IF acc.exc # "none" \/ i > Len(items) THEN acc
    ELSE LET word == items[i].k
             value == items[i].v
         IN
         IF IsPrefix(text, word) /\ word \notin acc.seen
         THEN LET r == _filter(filters, target, word, value, text, NoOptions)
                  acc1 == [acc EXCEPT !.seen = @ \cup {word},
                                      !.calls = @ \o r.calls]
              IN  IF r.ret = "raise"
                  THEN [acc1 EXCEPT !.exc = "FilterError"]
                  ELSE IF r.ret = "True"
                  THEN ScanItems(target, items, i + 1, text, filters,
                           [acc1 EXCEPT !.matches =
                               Append(@, _callable_postfix(value, word))])
                  ELSE ScanItems(target, items, i + 1, text, filters, acc1)
         ELSE ScanItems(target, items, i + 1, text, filters, acc)

global_matches(text, ns, filters) ==
    IF ns = NoAttr \/ ~HasItems(ns)
    THEN Outcome("AttributeError", <<>>, <<>>, ns, <<>>)
    ELSE LET acc0 == [seen |-> KeywordSeen(text),
                      matches |-> KeywordMatches(text, 1),
                      calls |-> <<>>, exc |-> "none"]
             acc1 == ScanItems("namespace", ns.items, 1, text, filters, acc0)
             acc2 == ScanItems("builtins", Builtins.items, 1, text, filters, acc1)
         IN  Outcome(acc2.exc, IF acc2.exc = "none" THEN acc2.matches ELSE <<>>,
                     acc2.calls, ns, <<>>)

-----------------------------------------------------------------------------
(* Ordering of strings: str comparison is by code point *)

Alphabet == <<"\t", " ", "(", ")", ".", ":", "_", "a", "b", "c", "d", "e", "i",
              "k", "l", "n", "o", "p", "r", "s", "t", "u", "y">>
CharOrd(c) == CHOOSE i \in 1..Len(Alphabet) : Alphabet[i] = c

RECURSIVE StrLess(_, _)
StrLess(a, b) ==
    IF a = <<>> THEN b # <<>>
    ELSE IF b = <<>> THEN FALSE
    ELSE IF Head(a) = Head(b) THEN StrLess(Tail(a), Tail(b))
    ELSE CharOrd(Head(a)) < CharOrd(Head(b))

\* list.sort() of a list of strings
RECURSIVE SortInsert(_, _)
SortInsert(sorted, x) ==
    IF sorted = <<>> THEN <<x>>
    ELSE IF StrLess(x, Head(sorted)) THEN <<x>> \o sorted
    ELSE <<Head(sorted)>> \o SortInsert(Tail(sorted), x)

\* a mutant of matches.sort(): the list is left in the order of the loop
Unsorted(l) == l

RECURSIVE SortList(_)
SortList(l) == IF l = <<>> THEN <<>> ELSE SortInsert(SortList(Tail(l)), Head(l))

\* The order in which "for word in words" visits a set of strings is not
\* specified; the model visits it from the largest string to the smallest.
RECURSIVE IterationOrder(_)
IterationOrder(S) ==
    IF S = {} THEN <<>>
    ELSE LET m == CHOOSE x \in S : \A y \in S : x = y \/ StrLess(y, x)
         IN  <<m>> \o IterationOrder(S \ {m})

-----------------------------------------------------------------------------
(* Objects: dir(), type(), getattr() *)

TypeOf(v) ==
    CASE v = "v_obj"  -> "K"
      [] v = "v_p"    -> "P"
      [] v = "v_u"    -> "U"
      [] v = "v_r"    -> "R"
      [] v = "v_b"    -> "B"
      [] v = "v_one"  -> "int"
      [] v = "v_none" -> "NoneType"
      [] v = "v_cls"  -> "type"
      [] v = "v_mod"  -> "module"
      [] OTHER        -> "function"

\* dir(v)
Dir(v) ==
    CASE v = "v_obj" -> {n_pk, n_pr, n_sl, n_s, n_d, n_class}
      [] v = "v_p"   -> {n_abs, n_s, n_d, n_class}
      [] v = "v_u"   -> {n_s, n_d, n_class}
      [] v = "v_r"   -> {n_pk, n_class}
      [] v = "v_b"   -> {n_builtins, n_class}
      [] v = "v_mod" -> {n_builtins, n_class}
      [] OTHER       -> {n_class}

\* dir(klass) and klass.__bases__
ClassDir(t) ==
    CASE t = "K" -> {n_pk, n_pr, n_sl, n_s, n_d, n_class}
      [] t = "P" -> {n_abs, n_s, n_d, n_class}
      [] t = "U" -> {n_s, n_d, n_class}
      [] t = "R" -> {n_pk, n_class}
      [] t = "B" -> {n_builtins, n_class}
      [] OTHER   -> {n_class}
Bases(t) == IF t = "object" THEN <<>> ELSE <<"object">>

\* _iter_class_members(klass), as the set of the names it yields
RECURSIVE _iter_class_members(_)
_iter_class_members(klass) ==
    ClassDir(klass) \cup
    UNION {_iter_class_members(Bases(klass)[i]) : i \in 1..Len(Bases(klass))}

\* a mutant of the property test: no member is taken to be a property
IsPropertyNever(t, word) == FALSE

\* isinstance(getattr(thistype, word, None), property)
IsProperty(t, word) == t = "K" /\ word = n_pr

\* getattr(v, word): [kind, val] with kind "value", "AttributeError" (the
\* attribute is missing, or a slot that was never set) or "raise" (the
\* access raises another exception)
GetAttr(v, word) ==
    CASE word = n_class -> [kind |-> "value", val |-> "v_cls"]
      [] v = "v_obj" /\ word = n_pk -> [kind |-> "value", val |-> "v_one"]
      [] v = "v_obj" /\ word = n_pr -> [kind |-> "value", val |-> "v_lambda0"]
      [] v = "v_obj" /\ word = n_s  -> [kind |-> "value", val |-> "v_lambda0"]
      [] v = "v_obj" /\ word = n_d  -> [kind |-> "value", val |-> "v_one"]
      [] v \in {"v_p", "v_u"} /\ word \in {n_s, n_d} -> [kind |-> "value", val |-> "v_one"]
      [] v = "v_p" /\ word = n_abs -> [kind |-> "value", val |-> "v_one"]
      [] v = "v_r" /\ word = n_pk  -> [kind |-> "raise", val |-> "v_none"]
      [] v \in {"v_b", "v_mod"} /\ word = n_builtins -> [kind |-> "value", val |-> "v_mod"]
      [] OTHER -> [kind |-> "AttributeError", val |-> "v_none"]

\* a mutant of getattr(thisobject, word, None): every exception of the
\* access is swallowed
GetAttrSwallowsAll(v, word) ==
    LET a == GetAttr(v, word) IN
    [exc |-> "none", val |-> IF a.kind = "value" THEN a.val ELSE "v_none"]

\* getattr(thisobject, word, None): the default replaces AttributeError
\* only, any other exception of the access propagates
GetAttrDefault(v, word) ==
    LET a == GetAttr(v, word) IN
    IF a.kind = "raise" THEN [exc |-> "GetattrError", val |-> "v_none"]
    ELSE [exc |-> "none", val |-> IF a.kind = "value" THEN a.val ELSE "v_none"]

-----------------------------------------------------------------------------
(* Completer.attr_matches *)

NonWord == {"\t", " ", "(", ")", ".", ":"}
\* the number of \w characters of text from position i on
RECURSIVE WordLen(_, _)
WordLen(text, i) ==
    IF i > Len(text) \/ text[i] \in NonWord THEN 0 ELSE 1 + WordLen(text, i + 1)

\* (\.\w+)* from position pos on, greedy: the start positions of the
\* segments matched, and the position after the last one
RECURSIVE MoreSegments(_, _, _)
MoreSegments(text, pos, starts) ==
    IF pos <= Len(text) /\ text[pos] = "." /\ WordLen(text, pos + 1) > 0
    THEN MoreSegments(text, pos + 1 + WordLen(text, pos + 1), Append(starts, pos + 1))
    ELSE [starts |-> starts, pos |-> pos]

\* re.compile(r"(\w+(\.\w+)*)\.(\w*)").match(text): [ok, expr, attr, segs]
\* where segs are the names of expr
SegmentsOf(text, starts) ==
    [i \in 1..Len(starts) |-> SubSeq(text, starts[i], starts[i] + WordLen(text, starts[i]) - 1)]

ReMatch(text) ==
    IF WordLen(text, 1) = 0
    THEN [ok |-> FALSE, expr |-> <<>>, attr |-> <<>>, segs |-> <<>>]
    ELSE LET g == MoreSegments(text, 1 + WordLen(text, 1), <<1>>) IN
         IF g.pos <= Len(text) /\ text[g.pos] = "."
         THEN [ok |-> TRUE, expr |-> SubSeq(text, 1, g.pos - 1), attr |-> <<>>,
               segs |-> SegmentsOf(text, g.starts)]
         ELSE IF Len(g.starts) >= 2
         THEN LET lst == g.starts[Len(g.starts)] IN
              [ok |-> TRUE, expr |-> SubSeq(text, 1, lst - 2),
               attr |-> SubSeq(text, lst, g.pos - 1),
               segs |-> SegmentsOf(text, SubSeq(g.starts, 1, Len(g.starts) - 1))]
         ELSE [ok |-> FALSE, expr |-> <<>>, attr |-> <<>>, segs |-> <<>>]

\* the attribute accesses of eval(expr), from segment i on
RECURSIVE EvalAttrs(_, _, _)
EvalAttrs(v, segs, i) ==
    IF i > Len(segs) THEN [ok |-> TRUE, val |-> v]
    ELSE LET a == GetAttr(v, segs[i]) IN
         IF a.kind = "value" THEN EvalAttrs(a.val, segs, i + 1)
         ELSE [ok |-> FALSE, val |-> "v_none"]

\* a mutant of eval(): the globals dict is left as it is
WithBuiltinsUnchanged(ns) == ns

\* the globals dict after eval(expr, globals): eval() stores the key
\* __builtins__ in it when the key is missing
WithBuiltins(ns) ==
    IF n_builtins \in Keys(ns) THEN ns
    ELSE [ns EXCEPT !.items = Append(@, Item(n_builtins, "v_mod"))]

\* eval(expr, self.namespace): [ok, val, ns].  eval() accepts only a dict
\* for globals and stores __builtins__ in it when the key is missing; the
\* words of KwList other than "_" are keywords and do not compile as names.
Eval(segs, ns) ==
    IF ns = NoAttr \/ ~IsDict(ns) THEN [ok |-> FALSE, val |-> "v_none", ns |-> ns]
    ELSE LET ns1 == WithBuiltins(ns)
             name == segs[1]
         IN  IF \E i \in 1..Len(segs) : segs[i] \in {n_and, n_as, n_assert, n_try}
             THEN [ok |-> FALSE, val |-> "v_none", ns |-> ns1]
             ELSE IF name \in Keys(ns1)
             THEN LET r == EvalAttrs(Lookup(ns1, name), segs, 2) IN
                  [ok |-> r.ok, val |-> r.val, ns |-> ns1]
             ELSE IF name \in Keys(Builtins)
             THEN LET r == EvalAttrs(Lookup(Builtins, name), segs, 2) IN
                  [ok |-> r.ok, val |-> r.val, ns |-> ns1]
             ELSE [ok |-> FALSE, val |-> "v_none", ns |-> ns1]

\* a mutant of the suppression test: no word is suppressed
SuppressedNever(word, n, noprefix) == FALSE

\* word[:n+1] == noprefix, for the rule noprefix ("" when there is none)
Suppressed(word, n, noprefix) ==
    noprefix # <<>> /\
    SubSeq(word, 1, IF n + 1 <= Len(word) THEN n + 1 ELSE Len(word)) = noprefix

\* one pass of "for word in words", from word i on; acc is
\* [matches, calls, reads, exc]
RECURSIVE AttrPass(_, _, _, _, _, _, _, _, _)
AttrPass(words, i, thisobject, expr, attr, noprefix, text, filters, acc) ==
    IF acc.exc # "none" \/ i > Len(words) THEN acc
    ELSE LET word == words[i]
             match == expr \o <<".">> \o word
             thistype == TypeOf(thisobject)
         IN
         IF IsPrefix(attr, word) /\ ~Suppressed(word, Len(attr), noprefix)
         THEN IF IsProperty(thistype, word)
              THEN LET r == _filter(filters, thisobject, word, "v_none", text,
                                    {<<"owner", thistype>>, <<"property", "True">>})
                       acc1 == [acc EXCEPT !.calls = @ \o r.calls]
                   IN  IF r.ret = "raise" THEN [acc1 EXCEPT !.exc = "FilterError"]
                       ELSE AttrPass(words, i + 1, thisobject, expr, attr, noprefix,
                                text, filters,
                                IF r.ret = "True"
                                THEN [acc1 EXCEPT !.matches = Append(@, match)]
                                ELSE acc1)
              ELSE LET a == GetAttrDefault(thisobject, word)
                       value == a.val
                       acc0 == [acc EXCEPT !.reads = Append(@, word)]
                   IN  IF a.exc # "none" THEN [acc0 EXCEPT !.exc = a.exc]
                       ELSE
                       LET r == _filter(filters, thisobject, word, value, text, NoOptions)
                           acc1 == [acc0 EXCEPT !.calls = @ \o r.calls]
                       IN  IF r.ret = "raise" THEN [acc1 EXCEPT !.exc = "FilterError"]
                           ELSE AttrPass(words, i + 1, thisobject, expr, attr, noprefix,
                                    text, filters,
                                    IF r.ret = "True"
                                    THEN [acc1 EXCEPT !.matches =
                                        Append(@, IF value # "v_none"
                                                  THEN _callable_postfix(value, match)
                                                  ELSE match)]
                                    ELSE acc1)
         ELSE AttrPass(words, i + 1, thisobject, expr, attr, noprefix, text, filters, acc)

\* a mutant of the "while True" loop: the rule is never relaxed
AttrLoopOnce(words, thisobject, expr, attr, noprefix, text, filters, acc) ==
    AttrPass(words, 1, thisobject, expr, attr, noprefix, text, filters, acc)

\* the "while True" loop, entered with the rule noprefix
RECURSIVE AttrLoop(_, _, _, _, _, _, _, _)
AttrLoop(words, thisobject, expr, attr, noprefix, text, filters, acc) ==
    LET acc1 == AttrPass(words, 1, thisobject, expr, attr, noprefix, text, filters, acc) IN
    IF acc1.exc # "none" \/ acc1.matches # <<>> \/ noprefix = <<>> THEN acc1
    ELSE AttrLoop(words, thisobject, expr, attr,
                  IF noprefix = <<"_">> THEN <<"_", "_">> ELSE <<>>,
                  text, filters, acc1)

attr_matches(text, ns, filters) ==
    LET m == ReMatch(text) IN
    IF ~m.ok THEN Outcome("none", <<>>, <<>>, ns, <<>>)
    ELSE LET ev == Eval(m.segs, ns) IN
         IF ~ev.ok THEN Outcome("none", <<>>, <<>>, ev.ns, <<>>)
         ELSE LET thisobject == ev.val
                  words == ((Dir(thisobject) \ {n_builtins}) \cup {n_class})
                           \cup _iter_class_members(TypeOf(thisobject))
                  noprefix == IF m.attr = <<>> THEN <<"_">>
                              ELSE IF m.attr = <<"_">> THEN <<"_", "_">>
                              ELSE <<>>
                  acc == AttrLoop(IterationOrder(words), thisobject, m.expr, m.attr,
                                  noprefix, text, filters,
                                  [matches |-> <<>>, calls |-> <<>>,
                                   reads |-> <<>>, exc |-> "none"])
              IN  Outcome(acc.exc,
                          IF acc.exc = "none" THEN SortList(acc.matches) ELSE <<>>,
                          acc.calls, ev.ns, acc.reads)

\* Completer.get_matches
get_matches(text, ns, attr_filters, ns_filters) ==
    IF \E i \in 1..Len(text) : text[i] = "."
    THEN attr_matches(text, ns, attr_filters)
    ELSE global_matches(text, ns, ns_filters)

-----------------------------------------------------------------------------
(* The state machine *)

RetNone     == [kind |-> "None", val |-> <<>>]
RetStr(str) == [kind |-> "str", val |-> str]
RetBool(b)  == [kind |-> IF b THEN "True" ELSE "False", val |-> <<>>]
RetRaise    == [kind |-> "raise", val |-> <<>>]

\* the record of a call: op is the method, filter / arg / name / text / state
\* its arguments, ret what it returned, exc the exception it raised
\* ("none" if it returned), calls the filter predicate calls it made,
\* reads the getattr() reads it made, frontend what it told readline
NoCall ==
    [op |-> "none", filter |-> "-", arg |-> NoAttr, name |-> <<>>,
     text |-> <<>>, state |-> 0, ret |-> RetNone, exc |-> "none",
     calls |-> <<>>, reads |-> <<>>, frontend |-> "none"]

\* The sequence of calls complete(text, 0), complete(text, 1), ... under
\* way: its text, the state the next call of the sequence has, and the list
\* the state-0 call computed (a blank text computes none).
NoRun == [active |-> FALSE, text |-> <<>>, next |-> 0, list |-> <<>>]

\* Inputs
NamespaceArgs == {NoneArg, DictA, DictSub, EmptyList, List1, EmptyProxy, Proxy1}
Texts  == {<<>>, <<" ">>, <<"a">>, n_as, n_sp, <<"o", ".">>}
States == 0 .. MaxState
\* the filters registered with a Completer, and with a bare Filterer
NsPool   == {"f1", "f2"}
AttrPool == {"f3"}
FiltererNsPool   == Filters \ {"f6"}
FiltererAttrPool == {"f0", "f5"}
ProbeNames == {n_abs, n_all, n_sp, n_us}

\* before any object is constructed
Init ==
    /\ engine = "none"
    /\ use_main_ns = 0
    /\ namespace = NoAttr
    /\ namespace_filters = <<>>
    /\ attribute_filters = <<>>
    /\ matches = <<>>
    /\ has_matches = FALSE
    /\ readline_available \in BOOLEAN
    /\ ns_reg = <<>>
    /\ attr_reg = <<>>
    /\ run = NoRun
    /\ last = NoCall

\* Filterer(): a bare Filterer
InitFilterer ==
    /\ engine = "filterer"
    /\ use_main_ns = 0
    /\ namespace = NoAttr
    /\ namespace_filters = <<>>
    /\ attribute_filters = <<>>
    /\ matches = <<>>
    /\ has_matches = FALSE
    /\ readline_available = FALSE
    /\ ns_reg = <<>>
    /\ attr_reg = <<>>
    /\ run = NoRun
    /\ last = NoCall

\* Completer(namespace)
Construct(arg) ==
    /\ engine = "none"
    /\ IF Truthy(arg) /\ ~IsDict(arg)
       THEN /\ last' = [NoCall EXCEPT !.op = "Completer", !.arg = arg,
                                      !.ret = RetRaise, !.exc = "TypeError"]
            /\ UNCHANGED <<engine, use_main_ns, namespace>>
       ELSE /\ engine' = "completer"
            /\ use_main_ns' = IF arg = NoneArg THEN 1 ELSE 0
            /\ namespace' = IF arg = NoneArg THEN NoAttr ELSE arg
            /\ last' = [NoCall EXCEPT !.op = "Completer", !.arg = arg]
    /\ UNCHANGED <<namespace_filters, attribute_filters, matches, has_matches,
                   readline_available, ns_reg, attr_reg, run>>

\* the first occurrence of x removed from the history s
RegRemove(s, x) ==
    IF \E i \in 1..Len(s) : s[i] = x
    THEN DeleteAt(s, CHOOSE i \in 1..Len(s) : s[i] = x /\ \A j \in 1..(i - 1) : s[j] # x)
    ELSE s

\* Filterer.add_namespace_filter
AddNamespaceFilter(f) ==
    /\ engine # "none"
    /\ LET r == _add_filter(namespace_filters, f) IN
       /\ namespace_filters' = r.filters
       /\ ns_reg' = IF r.ret THEN Append(ns_reg, f) ELSE ns_reg
       /\ last' = [NoCall EXCEPT !.op = "add_namespace_filter", !.filter = f,
                                 !.ret = RetBool(r.ret)]
    /\ UNCHANGED <<engine, use_main_ns, namespace, attribute_filters, matches,
                   has_matches, readline_available, attr_reg, run>>

\* Filterer.add_attribute_filter
AddAttributeFilter(f) ==
    /\ engine # "none"
    /\ LET r == _add_filter(attribute_filters, f) IN
       /\ attribute_filters' = r.filters
       /\ attr_reg' = IF r.ret THEN Append(attr_reg, f) ELSE attr_reg
       /\ last' = [NoCall EXCEPT !.op = "add_attribute_filter", !.filter = f,
                                 !.ret = RetBool(r.ret)]
    /\ UNCHANGED <<engine, use_main_ns, namespace, namespace_filters, matches,
                   has_matches, readline_available, ns_reg, run>>

\* Filterer.remove_namespace_filter
RemoveNamespaceFilter(f) ==
    /\ engine # "none"
    /\ LET r == _remove_filter(namespace_filters, f) IN
       /\ namespace_filters' = r.filters
       /\ ns_reg' = IF r.ret THEN RegRemove(ns_reg, namespace_filters[r.pos])
                    ELSE ns_reg
       /\ last' = [NoCall EXCEPT !.op = "remove_namespace_filter", !.filter = f,
                                 !.ret = RetBool(r.ret)]
    /\ UNCHANGED <<engine, use_main_ns, namespace, attribute_filters, matches,
                   has_matches, readline_available, attr_reg, run>>

\* Filterer.remove_attribute_filter
RemoveAttributeFilter(f) ==
    /\ engine # "none"
    /\ LET r == _remove_filter(attribute_filters, f) IN
       /\ attribute_filters' = r.filters
       /\ attr_reg' = IF r.ret THEN RegRemove(attr_reg, attribute_filters[r.pos])
                      ELSE attr_reg
       /\ last' = [NoCall EXCEPT !.op = "remove_attribute_filter", !.filter = f,
                                 !.ret = RetBool(r.ret)]
    /\ UNCHANGED <<engine, use_main_ns, namespace, namespace_filters, matches,
                   has_matches, readline_available, ns_reg, run>>

FilterResult(op, key, r) ==
    [NoCall EXCEPT !.op = op, !.name = key,
                   !.ret = IF r.ret = "raise" THEN RetRaise ELSE RetBool(r.ret = "True"),
                   !.exc = IF r.ret = "raise" THEN "FilterError" ELSE "none",
                   !.calls = r.calls]

\* Filterer.filter_namespace(namespace, key, None, "")
FilterNamespace(key) ==
    /\ engine # "none"
    /\ last' = FilterResult("filter_namespace", key,
                   _filter(namespace_filters, "namespace", key, "v_none", <<>>, NoOptions))
    /\ UNCHANGED <<engine, use_main_ns, namespace, namespace_filters,
                   attribute_filters, matches, has_matches, readline_available,
                   ns_reg, attr_reg, run>>

\* Filterer.filter_attribute(instance, name, None, "")
FilterAttribute(key) ==
    /\ engine # "none"
    /\ last' = FilterResult("filter_attribute", key,
                   _filter(attribute_filters, "v_obj", key, "v_none", <<>>, NoOptions))
    /\ UNCHANGED <<engine, use_main_ns, namespace, namespace_filters,
                   attribute_filters, matches, has_matches, readline_available,
                   ns_reg, attr_reg, run>>

\* a mutant of self.matches[state]: the list is indexed from 1
ListIndexFromOne(list, state) ==
    IF 1 <= state /\ state <= Len(list) THEN [kind |-> "str", val |-> list[state]]
    ELSE [kind |-> "IndexError", val |-> <<>>]

\* self.matches[state]: [kind, val], "IndexError" when out of range
ListIndex(list, state) ==
    IF 0 <= state /\ state < Len(list) THEN [kind |-> "str", val |-> list[state + 1]]
    ELSE IF state < 0 /\ -state <= Len(list)
    THEN [kind |-> "str", val |-> list[Len(list) + state + 1]]
    ELSE [kind |-> "IndexError", val |-> <<>>]

\* what complete() returns for a blank text
BlankResult(state, call) ==
    IF state = 0
    THEN IF readline_available
         THEN [call EXCEPT !.ret = RetStr(<<>>), !.frontend = "insert_text+redisplay"]
         ELSE [call EXCEPT !.ret = RetStr(TAB)]
    ELSE [call EXCEPT !.ret = RetNone]

\* a mutant of the end of complete(): IndexError is not caught
IndexResultNoExcept(list, bound, state, call) ==
    IF ~bound THEN [call EXCEPT !.ret = RetRaise, !.exc = "AttributeError"]
    ELSE LET r == ListIndex(list, state) IN
         IF r.kind = "IndexError" THEN [call EXCEPT !.ret = RetRaise, !.exc = "IndexError"]
         ELSE [call EXCEPT !.ret = RetStr(r.val)]

\* the try / except IndexError at the end of complete()
IndexResult(list, bound, state, call) ==
    IF ~bound THEN [call EXCEPT !.ret = RetRaise, !.exc = "AttributeError"]
    ELSE LET r == ListIndex(list, state) IN
         IF r.kind = "IndexError" THEN [call EXCEPT !.ret = RetNone]
         ELSE [call EXCEPT !.ret = RetStr(r.val)]

\* a mutant of "if state == 0": every call computes the list anew
RecomputesAlways(state) == TRUE

\* "if state == 0": the candidate list is computed anew
Recomputes(state) == state = 0

\* a mutant of complete(): it suppresses the exceptions of get_matches and
\* takes the request to have no matches
CompleteSuppresses(out, state, call) ==
    IF out.exc # "none"
    THEN [matches |-> <<>>, has_matches |-> TRUE,
          last |-> IndexResult(<<>>, TRUE, state, call)]
    ELSE [matches |-> out.list, has_matches |-> TRUE,
          last |-> IndexResult(out.list, TRUE, state, call)]

\* complete() for state 0 and a text that is not blank, given the outcome of
\* get_matches: "with warnings.catch_warnings(action="ignore")" suppresses
\* warnings, so an exception of get_matches leaves complete() before
\* self.matches is assigned.
CompleteComputed(out, state, call) ==
    IF out.exc # "none"
    THEN [matches |-> matches, has_matches |-> has_matches,
          last |-> [call EXCEPT !.ret = RetRaise, !.exc = out.exc]]
    ELSE [matches |-> out.list, has_matches |-> TRUE,
          last |-> IndexResult(out.list, TRUE, state, call)]

\* a mutant of the start of complete(): the scope is bound to
\* __main__.__dict__ whatever the flag
BoundScopeAlways(flag, ns) == MainNs

\* "if self.use_main_ns: self.namespace = __main__.__dict__": the scope the
\* engine holds after the start of complete()
BoundScope(flag, ns) == IF flag # 0 THEN MainNs ELSE ns

\* the sequence under way after the call last1 = complete(text, state)
RunAfter(text, state, last1, list) ==
    IF last1.exc # "none" THEN NoRun
    ELSE IF state = 0
    THEN [active |-> TRUE, text |-> text, next |-> 1, list |-> list]
    ELSE IF run.active /\ run.text = text /\ run.next = state
    THEN [run EXCEPT !.next = state + 1]
    ELSE NoRun

\* Completer.complete(text, state)
Complete(text, state) ==
    /\ engine = "completer"
    /\ LET ns1  == BoundScope(use_main_ns, namespace)
           call == [NoCall EXCEPT !.op = "complete", !.text = text, !.state = state]
       IN
       IF Blank(text)
       THEN /\ namespace' = ns1
            /\ last' = BlankResult(state, call)
            /\ run' = RunAfter(text, state, last', <<>>)
            /\ UNCHANGED <<matches, has_matches>>
       ELSE IF Recomputes(state)
       THEN \E out \in {get_matches(text, ns1, attribute_filters, namespace_filters)} :
            \E res \in {CompleteComputed(out, state,
                            [call EXCEPT !.calls = out.calls, !.reads = out.reads])} :
                /\ namespace' = out.ns
                /\ matches' = res.matches
                /\ has_matches' = res.has_matches
                /\ last' = res.last
                /\ run' = RunAfter(text, state, res.last, res.matches)
       ELSE /\ namespace' = ns1
            /\ last' = IndexResult(matches, has_matches, state, call)
            /\ run' = RunAfter(text, state, last', <<>>)
            /\ UNCHANGED <<matches, has_matches>>
    /\ UNCHANGED <<engine, use_main_ns, namespace_filters, attribute_filters,
                   readline_available, ns_reg, attr_reg>>

Next ==
    \/ \E arg \in NamespaceArgs : Construct(arg)
    \/ \E f \in NsPool : AddNamespaceFilter(f)
    \/ \E f \in AttrPool : AddAttributeFilter(f)
    \/ \E f \in NsPool : RemoveNamespaceFilter(f)
    \/ \E f \in AttrPool : RemoveAttributeFilter(f)
    \/ \E key \in ProbeNames : FilterNamespace(key)
    \/ \E key \in ProbeNames : FilterAttribute(key)
    \/ \E text \in Texts, state \in States : Complete(text, state)

Spec == Init /\ [][Next]_vars

NextFilterer ==
    \/ \E f \in FiltererNsPool : AddNamespaceFilter(f)
    \/ \E f \in FiltererAttrPool : AddAttributeFilter(f)
    \/ \E f \in FiltererNsPool : RemoveNamespaceFilter(f)
    \/ \E f \in FiltererAttrPool : RemoveAttributeFilter(f)
    \/ \E key \in ProbeNames : FilterNamespace(key)
    \/ \E key \in ProbeNames : FilterAttribute(key)

SpecFilterer == InitFilterer /\ [][NextFilterer]_vars

-----------------------------------------------------------------------------
(* The matching methods called directly on a constructed engine *)

RetList(list) == [kind |-> "list", val |-> list]

\* the record of a direct call of a matching method with the outcome out
MatchResult(op, text, out) ==
    [NoCall EXCEPT !.op = op, !.text = text,
                   !.ret = IF out.exc = "none" THEN RetList(out.list) ELSE RetRaise,
                   !.exc = out.exc, !.calls = out.calls, !.reads = out.reads]

\* Inputs
MatchScopes == {DictA, DictM, DictSub, EmptyProxy}
GlobalTexts ==
    {<<>>, <<"a">>, <<"a", "s">>, <<"a", "b">>, <<"t">>, <<"_">>, <<"s">>,
     <<"o">>}
AttrTexts ==
    {<<"o", ".">>, <<"o", ".", "_">>, <<"o", ".", "_", "_">>,
     <<"o", ".", "p">>, <<"o", ".", "s">>, <<"p", ".">>, <<"p", ".", "_">>,
     <<"u", ".">>, <<"u", ".", "_">>, <<"r", ".">>, <<"r", ".", "p">>,
     <<".", "o">>, <<"o", ".", ".", "p">>, <<"o", ".", "p", " ", "k">>,
     <<"o", ".", "p", "k", ".">>, <<"o", ".", "s", "l", ".">>, <<"k", ".">>,
     <<"t", "r", "y", ".">>, <<"o">>, <<"b", ".", "_", "_">>,
     <<"l", ".", "_", "_">>}
MatchNsPool   == {"f2", "f6"}
MatchAttrPool == {"f1", "f2", "f3"}

\* Completer(namespace) for a scope the constructor accepts
InitMatch ==
    /\ engine = "completer"
    /\ use_main_ns = 0
    /\ namespace \in MatchScopes
    /\ namespace_filters = <<>>
    /\ attribute_filters = <<>>
    /\ matches = <<>>
    /\ has_matches = FALSE
    /\ readline_available = FALSE
    /\ ns_reg = <<>>
    /\ attr_reg = <<>>
    /\ run = NoRun
    /\ last = NoCall

\* Completer.global_matches(text)
GlobalMatches(text) ==
    /\ engine = "completer"
    /\ \E out \in {global_matches(text, namespace, namespace_filters)} :
           /\ namespace' = out.ns
           /\ last' = MatchResult("global_matches", text, out)
    /\ UNCHANGED <<engine, use_main_ns, namespace_filters, attribute_filters,
                   matches, has_matches, readline_available, ns_reg, attr_reg, run>>

\* Completer.attr_matches(text)
AttrMatches(text) ==
    /\ engine = "completer"
    /\ \E out \in {attr_matches(text, namespace, attribute_filters)} :
           /\ namespace' = out.ns
           /\ last' = MatchResult("attr_matches", text, out)
    /\ UNCHANGED <<engine, use_main_ns, namespace_filters, attribute_filters,
                   matches, has_matches, readline_available, ns_reg, attr_reg, run>>

\* Completer.get_matches(text)
GetMatches(text) ==
    /\ engine = "completer"
    /\ \E out \in {get_matches(text, namespace, attribute_filters, namespace_filters)} :
           /\ namespace' = out.ns
           /\ last' = MatchResult("get_matches", text, out)
    /\ UNCHANGED <<engine, use_main_ns, namespace_filters, attribute_filters,
                   matches, has_matches, readline_available, ns_reg, attr_reg, run>>

NextMatch ==
    \/ \E f \in MatchNsPool : AddNamespaceFilter(f)
    \/ \E f \in MatchAttrPool : AddAttributeFilter(f)
    \/ \E f \in MatchNsPool : RemoveNamespaceFilter(f)
    \/ \E f \in MatchAttrPool : RemoveAttributeFilter(f)
    \/ \E text \in GlobalTexts : GlobalMatches(text)
    \/ \E text \in AttrTexts : AttrMatches(text)
    \/ \E text \in GlobalTexts \cup AttrTexts : GetMatches(text)

SpecMatch == InitMatch /\ [][NextMatch]_vars

-----------------------------------------------------------------------------
(* Properties of the filter chains *)

\* chain is sorted by non-decreasing priority
SortedByPriority(chain) ==
    \A i, j \in 1..Len(chain) : i < j => Priority(chain[i]) <= Priority(chain[j])

\* chain holds the filters of reg, each once, and those of equal priority in
\* the order of reg
Pos(seq, x) == CHOOSE i \in 1..Len(seq) : seq[i] = x
StableOrderOf(chain, reg) ==
    /\ Len(chain) = Len(reg)
    /\ {chain[i] : i \in 1..Len(chain)} = {reg[i] : i \in 1..Len(reg)}
    /\ Cardinality({reg[i] : i \in 1..Len(reg)}) = Len(reg)
    /\ \A i, j \in 1..Len(chain) :
           (i < j /\ Priority(chain[i]) = Priority(chain[j]))
               => Pos(reg, chain[i]) < Pos(reg, chain[j])

\* C1: after any sequence of add and remove calls, each chain is sorted by
\* non-decreasing priority and filters of equal priority appear in the order
\* in which they were successfully added: the chain is the stable sort by
\* priority of the registered filters in registration order.
C1_ChainIsStableSort ==
    /\ SortedByPriority(namespace_filters)
    /\ StableOrderOf(namespace_filters, ns_reg)
    /\ SortedByPriority(attribute_filters)
    /\ StableOrderOf(attribute_filters, attr_reg)

\* the test's example: priorities 500, 20, 10, 10, 500 added in that order
C1_Witness ==
    /\ ns_reg = <<"f0", "f1", "f2", "f3", "f4">>
    /\ namespace_filters = <<"f2", "f3", "f1", "f0", "f4">>

NoEqualFilters(chain) ==
    \A i, j \in 1..Len(chain) : i # j => ~FilterEq(chain[i], chain[j])

HasEqual(chain, f) == \E i \in 1..Len(chain) : FilterEq(chain[i], f)

\* what C2 says of a call add(f) that finds the chain pre and leaves post
AddContract(pre, post, f, ret) ==
    IF HasEqual(pre, f)
    THEN ret = RetBool(FALSE) /\ post = pre
    ELSE /\ ret = RetBool(TRUE)
         /\ Len(post) = Len(pre) + 1
         /\ \E p \in 1..Len(post) : post[p] = f /\ DeleteAt(post, p) = pre

\* C2: adding a filter to a chain that already holds an equal filter returns
\* False and leaves the chain unchanged, otherwise the filter is inserted and
\* True is returned; so no chain ever holds two equal filters.
C2_AddRejectsEqual ==
    [][/\ last'.op = "add_namespace_filter"
            => AddContract(namespace_filters, namespace_filters', last'.filter, last'.ret)
       /\ last'.op = "add_attribute_filter"
            => AddContract(attribute_filters, attribute_filters', last'.filter, last'.ret)
       /\ NoEqualFilters(namespace_filters')
       /\ NoEqualFilters(attribute_filters')]_vars

\* what C3 says of a call remove(f) that finds the chain pre and leaves post
RemoveContract(pre, post, f, ret) ==
    IF HasEqual(pre, f)
    THEN /\ ret = RetBool(TRUE)
         /\ \E p \in 1..Len(pre) :
               /\ FilterEq(pre[p], f)
               /\ \A q \in 1..(p - 1) : ~FilterEq(pre[q], f)
               /\ Len(post) = Len(pre) - 1
               /\ \A k \in 1..Len(post) : post[k] = IF k < p THEN pre[k] ELSE pre[k + 1]
    ELSE ret = RetBool(FALSE) /\ post = pre

\* C3: removing a filter deletes exactly the first entry equal to it, keeps
\* the order of the other entries and returns True; with no equal entry (an
\* empty chain too) it returns False and leaves the chain unchanged.
C3_RemoveFirstEqual ==
    [][/\ last'.op = "remove_namespace_filter"
            => RemoveContract(namespace_filters, namespace_filters', last'.filter, last'.ret)
       /\ last'.op = "remove_attribute_filter"
            => RemoveContract(attribute_filters, attribute_filters', last'.filter, last'.ret)]_vars

\* remove(f0) has deleted f5, the first entry equal to f0, and f0 is still there
C3_Witness ==
    /\ last.op = "remove_namespace_filter"
    /\ last.filter = "f0"
    /\ last.ret = RetBool(TRUE)
    /\ \E i \in 1..Len(namespace_filters) : namespace_filters[i] = "f0"
    /\ \A i \in 1..Len(namespace_filters) : namespace_filters[i] # "f5"
    /\ Len(namespace_filters) >= 3

-----------------------------------------------------------------------------
(* Properties of the filter chain applied to a candidate *)

HasDot(text) == \E i \in 1..Len(text) : text[i] = "."
WhitespaceOnly(text) == \A i \in 1..Len(text) : text[i] = " " \/ text[i] = "\t"
Range(seq) == {seq[i] : i \in 1..Len(seq)}

\* the candidate without its call marker
StripCall(c) ==
    IF Len(c) >= 2 /\ c[Len(c) - 1] = "(" /\ c[Len(c)] = ")" THEN SubSeq(c, 1, Len(c) - 2)
    ELSE IF Len(c) >= 1 /\ c[Len(c)] = "(" THEN SubSeq(c, 1, Len(c) - 1)
    ELSE c
\* the part of a dotted candidate after its last dot
RECURSIVE AfterLastDot(_)
AfterLastDot(c) ==
    IF HasDot(c) THEN AfterLastDot(Tail(c)) ELSE c
\* the name the filters were asked about for a candidate of text
BaseName(text, c) == IF HasDot(text) THEN AfterLastDot(StripCall(c)) ELSE StripCall(c)

SameCandidate(c, d) == c.target = d.target /\ c.name = d.name /\ c.options = d.options

\* calls applies chain to one candidate after the other: each candidate meets
\* the predicates in chain order, from the first one, and the predicate after
\* one that accepts is the next one of the chain; after a rejection no
\* predicate is called for that candidate.
AppliedInChainOrder(calls, chain) ==
    \A k \in 1..Len(calls) :
        \E p \in 1..Len(chain) :
            /\ calls[k].f = chain[p]
            /\ p > 1 => /\ k > 1
                        /\ calls[k - 1].f = chain[p - 1]
                        /\ calls[k - 1].verdict = "accept"
                        /\ SameCandidate(calls[k - 1], calls[k])
            /\ (p = 1 /\ k > 1) =>
                   \/ calls[k - 1].verdict = "reject"
                   \/ calls[k - 1].f = chain[Len(chain)]
            /\ (calls[k].verdict = "accept" /\ p < Len(chain)) =>
                   /\ k < Len(calls)
                   /\ calls[k + 1].f = chain[p + 1]
                   /\ SameCandidate(calls[k], calls[k + 1])

\* every filter of chain was asked about name and accepted it
AcceptedByAll(calls, chain, name) ==
    \A p \in 1..Len(chain) :
        \E k \in 1..Len(calls) :
            calls[k].f = chain[p] /\ calls[k].name = name /\ calls[k].verdict = "accept"

ChainOf(call) ==
    IF call.op = "filter_namespace" THEN namespace_filters
    ELSE IF call.op = "filter_attribute" THEN attribute_filters
    ELSE IF HasDot(call.text) THEN attribute_filters
    ELSE namespace_filters

\* C4: applying a chain to a candidate calls the predicates in chain order,
\* returns False at the first predicate that rejects without calling a later
\* one, and returns True exactly when the chain is empty or every predicate
\* accepts; a candidate drawn from a scope or from an object's members is
\* offered only if every filter of its chain accepted it (keywords are not
\* drawn from a scope and meet no chain).
C4_ChainIsShortCircuitConjunction ==
    /\ last.op \in {"filter_namespace", "filter_attribute"} =>
          LET chain == ChainOf(last)
              target == IF last.op = "filter_namespace" THEN "namespace" ELSE "v_obj"
              verdicts == [p \in 1..Len(chain) |->
                             Predicate(chain[p], target, last.name, "v_none", <<>>, NoOptions)]
          IN  /\ AppliedInChainOrder(last.calls, chain)
              /\ Len(last.calls) <= Len(chain)
              /\ last.exc = "none" =>
                    /\ last.ret = RetBool(\A p \in 1..Len(chain) : verdicts[p] = "accept")
                    /\ last.ret = RetBool(FALSE) =>
                          /\ verdicts[Len(last.calls)] = "reject"
                          /\ \A p \in 1..(Len(last.calls) - 1) : verdicts[p] = "accept"
    /\ (last.op = "complete" /\ last.state = 0 /\ ~WhitespaceOnly(last.text)) =>
          /\ AppliedInChainOrder(last.calls, ChainOf(last))
          /\ last.exc = "none" =>
                \A i \in 1..Len(matches) :
                    \/ ~HasDot(last.text) /\ matches[i] \in Range(KeywordMatches(last.text, 1))
                    \/ AcceptedByAll(last.calls, ChainOf(last), BaseName(last.text, matches[i]))

\* complete("a", 0) under the chain [f2, f1]: f2 rejects "abs" and f1 is not
\* asked about it; both accept "all", which is offered
C4_Witness ==
    /\ last.op = "complete" /\ last.text = <<"a">> /\ last.state = 0
    /\ last.exc = "none"
    /\ namespace_filters = <<"f2", "f1">>
    /\ \E k \in 1..Len(last.calls) :
           last.calls[k].name = n_abs /\ last.calls[k].verdict = "reject"
    /\ \A k \in 1..Len(last.calls) : last.calls[k].name = n_abs => last.calls[k].f = "f2"
    /\ n_all \o <<"(">> \in Range(matches)

-----------------------------------------------------------------------------
(* Properties of complete() *)

IsComplete(call) == call.op = "complete"

\* C5: the cached list is replaced only by a complete call with state 0 and a
\* text that is not blank, which sets it to get_matches(text); a call with
\* state k > 0 and a text that is not blank leaves it alone and returns its
\* k-th entry, whatever the text, or None when k is out of its range.
C5_CacheReplacedOnlyAtStateZero ==
    [][/\ (matches' # matches \/ has_matches' # has_matches) =>
            /\ IsComplete(last') /\ last'.state = 0 /\ ~WhitespaceOnly(last'.text)
            /\ last'.exc = "none"
            /\ has_matches'
            /\ matches' = get_matches(last'.text, namespace', attribute_filters',
                                      namespace_filters').list
       /\ (IsComplete(last') /\ last'.state > 0 /\ ~WhitespaceOnly(last'.text)) =>
            /\ matches' = matches
            /\ has_matches' = has_matches
            /\ has_matches =>
                  last'.ret = IF last'.state < Len(matches)
                              THEN RetStr(matches[last'.state + 1])
                              ELSE RetNone]_vars

\* complete("a", 0), complete("a", 1), complete("as", 2): the third match for "a"
C5_Witness ==
    /\ IsComplete(last) /\ last.text = n_as /\ last.state = 2
    /\ last.ret = RetStr(n_assert \o <<" ">>)

\* the last call is the call of the sequence under way made last
InRun == run.active /\ IsComplete(last) /\ last.text = run.text
         /\ last.state = run.next - 1

\* C6: the sequence complete(text, 0), complete(text, 1), ... returns a
\* candidate at every state below the length of the list computed at state 0
\* (1 for a blank text) and None at the state equal to that length, so it
\* ends after finitely many calls.
C6_SequenceEndsAtListLength ==
    InRun =>
        LET length == IF WhitespaceOnly(run.text) THEN 1 ELSE Len(run.list) IN
        /\ last.exc = "none"
        /\ last.state < length =>
              /\ last.ret.kind = "str"
              /\ ~WhitespaceOnly(run.text) => last.ret.val = run.list[last.state + 1]
        /\ last.state >= length => last.ret = RetNone

\* complete("as", 0), complete("as", 1), complete("as", 2): two candidates, then None
C6_Witness ==
    /\ InRun /\ run.text = n_as /\ Len(run.list) = 2
    /\ last.state = 2 /\ last.ret = RetNone

\* C7: for a text that is empty or only whitespace, complete does no matching:
\* without readline state 0 returns a tab and every state > 0 returns None, no
\* filter predicate is called and the cached list is left unchanged.
C7_BlankTextDoesNoMatching ==
    [][(IsComplete(last') /\ WhitespaceOnly(last'.text)) =>
            /\ (last'.state = 0 /\ ~readline_available) => last'.ret = RetStr(<<"\t">>)
            /\ last'.state > 0 => last'.ret = RetNone
            /\ last'.exc = "none"
            /\ last'.calls = <<>>
            /\ matches' = matches
            /\ has_matches' = has_matches]_vars

\* complete(" ", 0) without readline, with a list cached and filters registered
C7_Witness ==
    /\ IsComplete(last) /\ last.text = <<" ">> /\ last.state = 0
    /\ ~readline_available
    /\ last.ret = RetStr(<<"\t">>)
    /\ has_matches /\ matches # <<>>
    /\ namespace_filters # <<>>

ARaised(call) == \E k \in 1..Len(call.calls) : call.calls[k].verdict = "raise"

\* C8 as stated: when a filter predicate raises while complete(text, 0)
\* computes the candidates of a text that is not blank, complete returns None
\* and the request has no matches.
C8_FilterExceptionSuppressed ==
    (IsComplete(last) /\ last.state = 0 /\ ~WhitespaceOnly(last.text) /\ ARaised(last)) =>
        /\ last.exc = "none"
        /\ last.ret = RetNone
        /\ has_matches /\ matches = <<>>

\* C8, amended: when a filter predicate raises while complete(text, 0)
\* computes the candidates of a text that is not blank, the exception
\* propagates out of complete and the cached list is left as it was.
C8_FilterExceptionPropagates ==
    [][(IsComplete(last') /\ last'.state = 0 /\ ~WhitespaceOnly(last'.text)
            /\ ARaised(last')) =>
            /\ last'.exc = "FilterError"
            /\ last'.ret = RetRaise
            /\ matches' = matches
            /\ has_matches' = has_matches]_vars

\* a filter raised in complete(text, 0) while a list of an earlier request was cached
C8_Witness ==
    /\ IsComplete(last) /\ last.state = 0 /\ ARaised(last)
    /\ last.exc = "FilterError"
    /\ has_matches /\ matches # <<>>

C10_ConstructionChecksMapping ==
    last.op = "Completer" =>
        /\ last.arg.type = "list" => (last.exc = "TypeError" /\ engine = "none")
        /\ (IsDict(last.arg) \/ last.arg = EmptyProxy) =>
              (last.exc = "none" /\ engine = "completer" /\ use_main_ns = 0)

-----------------------------------------------------------------------------
(* Properties of the scope binding *)

\* C11: an engine constructed without a scope has use_main_ns set and holds
\* no scope until its first complete call, which binds it to
\* __main__.__dict__, as every later complete call does; an engine
\* constructed with a scope has the flag clear and keeps that very scope
\* object over every later call.  The flag never changes after construction.
C11_DeferredBinding ==
    [][/\ (engine = "none" /\ engine' = "completer") =>
            /\ use_main_ns' = (IF last'.arg = NoneArg THEN 1 ELSE 0)
            /\ namespace' = (IF last'.arg = NoneArg THEN NoAttr ELSE last'.arg)
       /\ engine = "completer" =>
            /\ engine' = "completer"
            /\ use_main_ns' = use_main_ns
            /\ use_main_ns = 1 =>
                  namespace'.id = (IF IsComplete(last') THEN MainNs.id ELSE namespace.id)
            /\ use_main_ns = 0 => namespace'.id = namespace.id]_vars

\* an engine constructed with a dict has completed a dotted text, which
\* evaluates in that dict, and still holds it
C11_Witness ==
    /\ engine = "completer" /\ use_main_ns = 0
    /\ IsComplete(last) /\ HasDot(last.text)
    /\ namespace.id = DictA.id
    /\ matches # <<>>

-----------------------------------------------------------------------------
(* Properties of global_matches *)

IsGlobalMatches(call) == call.op = "global_matches" /\ call.exc = "none"

\* text is a literal prefix of c
StartsWith(c, text) ==
    /\ Len(text) <= Len(c)
    /\ \A i \in 1..Len(text) : c[i] = text[i]

\* the candidate without a trailing "()", "(", ":" or " "
Undecorated(c) ==
    IF Len(c) >= 2 /\ c[Len(c) - 1] = "(" /\ c[Len(c)] = ")" THEN SubSeq(c, 1, Len(c) - 2)
    ELSE IF Len(c) >= 1 /\ c[Len(c)] \in {"(", ":", " "} THEN SubSeq(c, 1, Len(c) - 1)
    ELSE c

\* C12: each candidate returned by global_matches(text) has text as a literal
\* prefix of its undecorated form.
C12_GlobalCandidatesStartWithText ==
    IsGlobalMatches(last) =>
        \A i \in 1..Len(last.ret.val) :
            StartsWith(Undecorated(last.ret.val[i]), last.text)

\* global_matches("s") returns the callable scope entry "sp" as "sp()"
C12_Witness ==
    /\ IsGlobalMatches(last) /\ last.text = <<"s">>
    /\ last.ret.val = <<n_sp \o <<"(", ")">> >>

\* every filter of chain accepts the entry word of the scope target
ChainAccepts(chain, target, word, value, text) ==
    \A p \in 1..Len(chain) :
        Predicate(chain[p], target, word, value, text, NoOptions) = "accept"

\* the keywords that start with text, in the order of the keyword list
KeywordsFor(text) == SelectSeq(KwList, LAMBDA w : StartsWith(w, text))

\* the entries of items that start with text, are not in taken and are
\* accepted by chain, in the order of items, each decorated by its own value
EntriesFor(items, target, text, taken, chain) ==
    LET sel == SelectSeq(items, LAMBDA it :
                   /\ StartsWith(it.k, text)
                   /\ it.k \notin taken
                   /\ ChainAccepts(chain, target, it.k, it.v, text))
    IN  [i \in 1..Len(sel) |-> _callable_postfix(sel[i].v, sel[i].k)]

\* C13: global_matches returns the matching keywords first, then the matching
\* names of the active scope in its iteration order, then the matching
\* built-in names, and no two candidates share an undecorated name: a keyword
\* wins over a scope entry of the same name, which wins over a built-in, and
\* the candidate carries the decoration of the winning source.
C13_KeywordsScopeBuiltinsNoDuplicates ==
    IsGlobalMatches(last) =>
        LET text == last.text
            list == last.ret.val
            kws  == KeywordsFor(text)
            kwnames == Range(kws) \cup {n_builtins}
        IN  /\ list = [i \in 1..Len(kws) |-> KwDecorate(kws[i])]
                      \o EntriesFor(namespace.items, "namespace", text, kwnames,
                                    namespace_filters)
                      \o EntriesFor(Builtins.items, "builtins", text,
                                    kwnames \cup Keys(namespace), namespace_filters)
            /\ \A i, j \in 1..Len(list) :
                   i # j => Undecorated(list[i]) # Undecorated(list[j])

\* global_matches("a") with try, abs, sp and o in the scope: three keywords,
\* then the scope entry abs (bound to None, so without "("), then the built-in
\* all
C13_Witness ==
    /\ IsGlobalMatches(last) /\ last.text = <<"a">>
    /\ namespace.id = DictA.id
    /\ last.ret.val = <<n_and \o <<" ">>, n_as \o <<" ">>, n_assert \o <<" ">>,
                        n_abs, n_all \o <<"(">> >>

-----------------------------------------------------------------------------
(* Properties of attr_matches *)

IsAttrMatches(call) == call.op = "attr_matches" /\ call.exc = "none"

\* C14: the list attr_matches returns is sorted lexicographically by
\* candidate string and holds no candidate string twice.
C14_AttrListSortedNoDuplicates ==
    IsAttrMatches(last) =>
        \A i, j \in 1..Len(last.ret.val) :
            i < j => StrLess(last.ret.val[i], last.ret.val[j])

\* attr_matches("o.") for an instance whose members are listed both by
\* dir(instance) and by dir(type): three candidates, each once, in order
C14_Witness ==
    /\ IsAttrMatches(last) /\ last.text = <<"o", ".">>
    /\ last.ret.val = << <<"o", ".">> \o n_pk, <<"o", ".">> \o n_pr, <<"o", ".">> \o n_sl >>

\* the request of an attr_matches call that resolved its expression: the
\* object, the partial name, the member names considered
Resolves(call) ==
    /\ IsAttrMatches(call)
    /\ ReMatch(call.text).ok
    /\ Eval(ReMatch(call.text).segs, namespace).ok
ResolvedObject(call) == Eval(ReMatch(call.text).segs, namespace).val
PartialName(call) == ReMatch(call.text).attr
MembersOf(obj) ==
    ((Dir(obj) \ {n_builtins}) \cup {n_class}) \cup _iter_class_members(TypeOf(obj))

PropertyOptions(obj) == {<<"owner", TypeOf(obj)>>, <<"property", "True">>}

\* every filter of chain accepts the member word of obj
AttrAccepted(chain, obj, word, text) ==
    LET isprop == IsProperty(TypeOf(obj), word)
        a      == GetAttr(obj, word)
        value  == IF isprop \/ a.kind # "value" THEN "v_none" ELSE a.val
        opts   == IF isprop THEN PropertyOptions(obj) ELSE NoOptions
    IN  \A p \in 1..Len(chain) :
            Predicate(chain[p], obj, word, value, text, opts) = "accept"

\* the members of the resolved object that have the partial name as prefix
\* and that the attribute filters accept
AcceptedMembers(call) ==
    {w \in MembersOf(ResolvedObject(call)) :
        /\ StartsWith(w, PartialName(call))
        /\ AttrAccepted(attribute_filters, ResolvedObject(call), w, call.text)}

\* the member names of the candidates returned
ReturnedMembers(call) ==
    {AfterLastDot(StripCall(call.ret.val[i])) : i \in 1..Len(call.ret.val)}

\* C15: with an empty partial name and an accepted member that does not start
\* with an underscore, no returned member starts with an underscore; with the
\* partial name "_" and an accepted member that starts with exactly one
\* underscore, no returned member starts with two; with any other partial
\* name, every member with that prefix that the filters accept is returned.
C15_InitialUnderscoreSuppression ==
    Resolves(last) =>
        LET attr == PartialName(last)
            acc  == AcceptedMembers(last)
            ret  == ReturnedMembers(last)
        IN  /\ (attr = <<>> /\ \E w \in acc : ~StartsWith(w, <<"_">>))
                   => \A w \in ret : ~StartsWith(w, <<"_">>)
            /\ (attr = <<"_">> /\ \E w \in acc : ~StartsWith(w, <<"_", "_">>))
                   => \A w \in ret : ~StartsWith(w, <<"_", "_">>)
            /\ attr \notin {<<>>, <<"_">>} => ret = acc

\* attr_matches("o._") returns the method _s and neither __d nor __class__
C15_Witness ==
    /\ IsAttrMatches(last) /\ last.text = <<"o", ".", "_">>
    /\ last.ret.val = << <<"o", ".">> \o n_s \o <<"(", ")">> >>

\* the request of an attr_matches call that resolved its expression,
\* whether it returned or raised
ResolvesOrRaises(call) ==
    /\ call.op = "attr_matches"
    /\ ReMatch(call.text).ok
    /\ Eval(ReMatch(call.text).segs, namespace).ok

\* the names that are properties of the class t
PropertiesOf(t) == IF t = "K" THEN {n_pr} ELSE {}

\* C16: attr_matches never reads a property member of the resolved object,
\* whether the filters accept or reject it; the attribute filters are called
\* for it with value None and the options owner = the object's type and
\* property = True, and an accepted property candidate carries no call
\* marker.  For other members no options are passed.
C16_PropertyNeverEvaluated ==
    ResolvesOrRaises(last) =>
        LET obj   == ResolvedObject(last)
            props == PropertiesOf(TypeOf(obj))
        IN  /\ \A k \in 1..Len(last.reads) : last.reads[k] \notin props
            /\ \A k \in 1..Len(last.calls) :
                   IF last.calls[k].name \in props
                   THEN /\ last.calls[k].value = "v_none"
                        /\ last.calls[k].options =
                               {<<"owner", TypeOf(obj)>>, <<"property", "True">>}
                   ELSE last.calls[k].options = {}
            /\ last.exc = "none" =>
                   \A i \in 1..Len(last.ret.val) :
                       AfterLastDot(StripCall(last.ret.val[i])) \in props
                           => last.ret.val[i] = StripCall(last.ret.val[i])

\* attr_matches("o.") under the chain [f3]: the filter is asked about the
\* property pr and accepts it, pr is offered as "o.pr", and only the other
\* members were read
C16_Witness ==
    /\ IsAttrMatches(last) /\ last.text = <<"o", ".">>
    /\ attribute_filters = <<"f3">>
    /\ \E k \in 1..Len(last.calls) :
           last.calls[k].name = n_pr /\ last.calls[k].verdict = "accept"
    /\ <<"o", ".">> \o n_pr \in Range(last.ret.val)
    /\ n_pk \in Range(last.reads)

\* C17: during one attr_matches request the value of each member of the
\* resolved object that is not a property is retrieved no more than once.
C17_MemberReadAtMostOnce ==
    ResolvesOrRaises(last) =>
        \A i, j \in 1..Len(last.reads) : i # j => last.reads[i] # last.reads[j]

\* C18: relaxation proceeds one step at a time: with an empty partial name,
\* when no accepted member is free of a leading underscore, the retry still
\* suppresses the names that start with two underscores, so that such
\* members are returned only if no accepted member starts with exactly one
\* underscore.
C18_RelaxationOneStepAtATime ==
    (Resolves(last) /\ PartialName(last) = <<>>) =>
        ((\E w \in ReturnedMembers(last) : StartsWith(w, <<"_", "_">>))
            => ~\E w \in AcceptedMembers(last) : ~StartsWith(w, <<"_", "_">>))

-----------------------------------------------------------------------------
(* Properties of the failures of attr_matches *)

IsAttrCall(call) == call.op = "attr_matches"

\* the call read a member whose access raises an exception other than
\* AttributeError
ReadRaised(call, obj) ==
    \E k \in 1..Len(call.reads) : GetAttr(obj, call.reads[k]).kind = "raise"

\* C19 as stated: no failure of the resolution or of a member's access ever
\* leaves attr_matches.
C19_AttrMatchesNeverRaises ==
    (IsAttrCall(last) /\ ~ARaised(last)) => last.exc = "none"

\* C19, amended: a failure of the resolution of the dotted names returns an
\* empty list; a member whose access raises AttributeError is taken to have
\* the value None; any other exception raised by a member's access
\* propagates out of attr_matches.
C19_AccessErrorsPropagate ==
    (IsAttrCall(last) /\ ReMatch(last.text).ok) =>
        LET ev  == Eval(ReMatch(last.text).segs, namespace)
            obj == ev.val
        IN  /\ ~ev.ok => (last.exc = "none" /\ last.ret = RetList(<<>>))
            /\ ev.ok =>
                  /\ ReadRaised(last, obj) <=> last.exc = "GetattrError"
                  /\ last.exc # "none" => (last.ret = RetRaise /\ last.exc \in
                                              {"GetattrError", "FilterError"})
                  /\ last.exc = "FilterError" => ARaised(last)
                  /\ \A k \in 1..Len(last.calls) :
                         GetAttr(obj, last.calls[k].name).kind = "AttributeError"
                             => last.calls[k].value = "v_none"
                  /\ last.exc = "none" =>
                         \A i \in 1..Len(last.ret.val) :
                             GetAttr(obj, AfterLastDot(StripCall(last.ret.val[i]))).kind
                                 = "AttributeError"
                                 => last.ret.val[i] = StripCall(last.ret.val[i])

\* attr_matches("r.") reads the attribute pk of r, whose access raises
\* ValueError, and the exception leaves attr_matches
C19_Witness ==
    /\ IsAttrCall(last) /\ last.text = <<"r", ".">>
    /\ last.reads = <<n_pk>>
    /\ last.exc = "GetattrError"
    /\ last.calls = <<>>

-----------------------------------------------------------------------------
(* Properties of the shape test of attr_matches *)

\* text as a whole is one or more word segments joined by ".", then ".",
\* then zero or more word characters
WholeShape(text) ==
    /\ HasDot(text)
    /\ text[1] # "."
    /\ \A i \in 1..Len(text) : text[i] \notin {"\t", " ", "(", ")", ":"}
    /\ \A i \in 1..(Len(text) - 1) : ~(text[i] = "." /\ text[i + 1] = ".")

\* C20: when text as a whole is not of the shape name(.name)*.partial,
\* attr_matches returns an empty list without resolving or reading anything;
\* whenever it returns candidates, each of them begins with text.
C20_ShapeCheckedOnWholeText ==
    IsAttrMatches(last) =>
        /\ ~WholeShape(last.text) =>
              (last.ret = RetList(<<>>) /\ last.reads = <<>> /\ last.calls = <<>>)
        /\ \A i \in 1..Len(last.ret.val) : StartsWith(last.ret.val[i], last.text)

-----------------------------------------------------------------------------
(* Properties of the reserved name __builtins__ *)

\* C21: __builtins__ is never offered: no candidate of global_matches has it
\* as its name and no candidate of attr_matches has it as its member name,
\* whether the name is listed by the object or by its type or an ancestor of
\* its type.
C21_BuiltinsNameNeverOffered ==
    /\ IsGlobalMatches(last) =>
           \A i \in 1..Len(last.ret.val) : Undecorated(last.ret.val[i]) # n_builtins
    /\ IsAttrMatches(last) =>
           \A i \in 1..Len(last.ret.val) :
               AfterLastDot(StripCall(last.ret.val[i])) # n_builtins

-----------------------------------------------------------------------------
(* Properties of the matching methods as queries *)

IsQuery(call) == call.op \in {"get_matches", "global_matches", "attr_matches"}

\* the parts of the engine's state other than the scope are left unchanged
FrameOfQuery ==
    /\ matches' = matches
    /\ has_matches' = has_matches
    /\ namespace_filters' = namespace_filters
    /\ attribute_filters' = attribute_filters
    /\ use_main_ns' = use_main_ns

\* C22 as stated: a call of get_matches, global_matches or attr_matches
\* leaves the cached list, both filter chains, the flag and the contents of
\* the active scope unchanged.
C22_QueriesArePure ==
    [][IsQuery(last') => (FrameOfQuery /\ namespace' = namespace)]_vars

\* the query evaluates an expression: its text has a dot and a prefix of the
\* shape name(.name)*.partial
Evaluates(call) ==
    /\ call.op \in {"get_matches", "attr_matches"}
    /\ HasDot(call.text)
    /\ ReMatch(call.text).ok

\* C22, amended: a call of get_matches, global_matches or attr_matches
\* leaves the cached list, both filter chains and the flag unchanged and
\* keeps the scope object; the contents of the scope change in one case
\* only: a call that evaluates a dotted expression in a dict that lacks the
\* key __builtins__ stores that key in it.
C22_QueriesStoreOnlyBuiltinsKey ==
    [][IsQuery(last') =>
          /\ FrameOfQuery
          /\ namespace'.id = namespace.id
          /\ namespace'.type = namespace.type
          /\ IF Evaluates(last') /\ namespace.type \in {"dict", "dictsubclass"}
                /\ \A i \in 1..Len(namespace.items) : namespace.items[i].k # n_builtins
             THEN namespace'.items =
                      namespace.items \o <<[k |-> n_builtins, v |-> "v_mod"]>>
             ELSE namespace'.items = namespace.items]_vars

\* attr_matches("o.") has stored __builtins__ in the dict the engine was
\* constructed with
C22_Witness ==
    /\ last.op = "attr_matches" /\ last.text = <<"o", ".">>
    /\ namespace.id = DictM.id
    /\ \E i \in 1..Len(namespace.items) : namespace.items[i].k = n_builtins
    /\ Len(last.ret.val) = 3

-----------------------------------------------------------------------------
(* Properties of the namespace filters in global_matches *)

IsGlobalCall(call) == call.op = "global_matches"

\* C23: keyword candidates bypass the namespace filters: whatever filters are
\* registered, one that rejects everything included, global_matches returns
\* every keyword that has text as prefix, and no predicate is called with a
\* keyword that has text as prefix, be it a key of a scope or not.
C23_KeywordsBypassFilters ==
    IsGlobalCall(last) =>
        LET kws == SelectSeq(KwList, LAMBDA w : StartsWith(w, last.text)) IN
        /\ last.exc = "none" =>
               \A i \in 1..Len(kws) :
                   \E j \in 1..Len(last.ret.val) : Undecorated(last.ret.val[j]) = kws[i]
        /\ \A k \in 1..Len(last.calls) :
               \A i \in 1..Len(kws) : last.calls[k].name # kws[i]

\* global_matches("t") under the chain [f6], with try bound in the scope:
\* the keyword is returned although f6 rejects everything, and f6 was not
\* asked about it
C23_Witness ==
    /\ IsGlobalCall(last) /\ last.text = <<"t">>
    /\ namespace.id = DictA.id
    /\ namespace_filters = <<"f6">>
    /\ last.ret = RetList(<<n_try \o <<":">> >>)
    /\ last.calls = <<>>

\* C24: in global_matches a name is marked seen before the filters run: when
\* a scope entry with the prefix is rejected, the built-in of the same name
\* is neither passed to the filters nor offered; each name meets the chain at
\* most once in a request, and only for its first source.
C24_SeenBeforeFilter ==
    IsGlobalCall(last) =>
        /\ \A k \in 1..Len(last.calls) :
               /\ last.calls[k].target =
                      (IF \E i \in 1..Len(namespace.items) :
                              namespace.items[i].k = last.calls[k].name
                       THEN "namespace" ELSE "builtins")
               /\ \A j \in 1..Len(last.calls) :
                      (j # k /\ last.calls[j].name = last.calls[k].name)
                          => last.calls[j].f # last.calls[k].f
        /\ last.exc = "none" =>
               \A k \in 1..Len(last.calls) :
                   last.calls[k].verdict = "reject" =>
                       \A i \in 1..Len(last.ret.val) :
                           Undecorated(last.ret.val[i]) # last.calls[k].name

\* global_matches("a") under the chain [f2], with abs both in the scope and
\* in the built-ins: f2 is asked about the scope entry abs and rejects it,
\* then about the built-in all only
C24_Witness ==
    /\ IsGlobalCall(last) /\ last.text = <<"a">>
    /\ namespace.id = DictA.id
    /\ namespace_filters = <<"f2">>
    /\ Len(last.calls) = 2
    /\ last.calls[1].name = n_abs /\ last.calls[1].target = "namespace"
    /\ last.calls[1].verdict = "reject"
    /\ last.calls[2].name = n_all /\ last.calls[2].target = "builtins"
    /\ last.ret.val = <<n_and \o <<" ">>, n_as \o <<" ">>, n_assert \o <<" ">>,
                        n_all \o <<"(">> >>

-----------------------------------------------------------------------------
(* Properties of the relaxation in attr_matches *)

\* C25: relaxation follows the filtered result, not the raw member set: with
\* the partial name empty or "_", the candidates come from the members the
\* filters accept, and when the filters reject every member visible under the
\* rule in force the rule is relaxed and the filters are asked again, so that
\* accepted members with a leading underscore are returned even though
\* members without one exist.
C25_RelaxationFollowsFilteredResult ==
    (Resolves(last) /\ PartialName(last) \in {<<>>, <<"_">>}) =>
        LET attr == PartialName(last)
            acc  == AcceptedMembers(last)
            ret  == ReturnedMembers(last)
        IN  /\ ret \subseteq acc
            /\ acc # {} => ret # {}
            /\ (attr = <<>> /\ \A w \in acc : StartsWith(w, <<"_">>))
                   => {w \in acc : ~StartsWith(w, <<"_", "_">>)} \subseteq ret
            /\ (attr = <<"_">> /\ \A w \in acc : StartsWith(w, <<"_", "_">>))
                   => ret = acc

\* attr_matches("p.") under the chain [f2], which rejects the only member
\* without a leading underscore, abs: the member _s is returned
C25_Witness ==
    /\ IsAttrMatches(last) /\ last.text = <<"p", ".">>
    /\ attribute_filters = <<"f2">>
    /\ \E k \in 1..Len(last.calls) :
           last.calls[k].name = n_abs /\ last.calls[k].verdict = "reject"
    /\ <<"p", ".">> \o n_s \in Range(last.ret.val)

-----------------------------------------------------------------------------
(* Properties of the cache under changes of the filter chains *)

IsFilterChange(call) ==
    call.op \in {"add_namespace_filter", "add_attribute_filter",
                 "remove_namespace_filter", "remove_attribute_filter"}

\* C26: registering or unregistering a filter never changes the cached list:
\* after complete(text, 0), whatever add and remove calls are interleaved,
\* complete(text, k) for k > 0 returns the k-th entry of the list computed at
\* state 0 (None past its end), and the chains in force are used only by the
\* next request with state 0.
C26_FilterChangesKeepCache ==
    [][/\ IsFilterChange(last') =>
              (matches' = matches /\ has_matches' = has_matches /\ run' = run)
       /\ (IsComplete(last') /\ last'.state > 0 /\ ~WhitespaceOnly(last'.text)
              /\ run.active /\ run.text = last'.text /\ run.next = last'.state) =>
              /\ matches' = matches
              /\ last'.exc = "none"
              /\ last'.ret = IF last'.state < Len(run.list)
                             THEN RetStr(run.list[last'.state + 1])
                             ELSE RetNone
       /\ (IsComplete(last') /\ last'.state = 0 /\ ~WhitespaceOnly(last'.text)
              /\ last'.exc = "none") =>
              matches' = get_matches(last'.text, namespace', attribute_filters,
                                     namespace_filters).list]_vars

\* complete("sp", 0) returned "sp()", then the filter f1, which raises when
\* asked about sp, was registered, and complete("sp", 1) returned None from
\* the cached list without asking f1
C26_Witness ==
    /\ InRun /\ run.text = n_sp /\ run.list = <<n_sp \o <<"(", ")">> >>
    /\ last.state = 1 /\ last.ret = RetNone /\ last.calls = <<>>
    /\ namespace_filters = <<"f1">>

====
